---- MODULE Spec2Model ----
(***************************************************************************)
(* yamcrs: a visit counter served as an SVG strip of themed digit glyphs.  *)
(*                                                                         *)
(* The module models src/main.rs in two phases of the same process:        *)
(*   - start-up: load_themes walks the asset tree and load_digit turns      *)
(*     each glyph file into (digit, data URI)          (SpecLoad);         *)
(*   - serving: concurrent get_image and set_count requests against the    *)
(*     tb_count table, one SQL statement per atomic step                    *)
(*     (Spec: every statement succeeds; SpecFault: a statement may fail).   *)
(* Option<T> values are sequences of length 0 (None) or 1 (Some), strings  *)
(* that the code inspects character by character are sequences of          *)
(* one-character strings, HashMaps are functions on their key set.         *)
(***************************************************************************)
EXTENDS Integers, Sequences, FiniteSets, TLC

(* ------------------------------ bounds ------------------------------- *)
\* number of requests a behaviour issues
MaxReqs == 2
\* largest of the small counts a set_count request or a rendering may name
MaxCount == 2
\* number of files listed in one theme directory
MaxFiles == 2
\* number of entries listed in the themes root directory
MaxEntries == 2

(* ------------------------- program constants -------------------------- *)
IMG_WIDTH == 45
IMG_HEIGHT == 100
PAD_LENGTH == 7

None == <<>>
Some(v) == <<v>>

(* ------------------------------ strings ------------------------------- *)
DigitChars == <<"0", "1", "2", "3", "4", "5", "6", "7", "8", "9">>

UpperToLower ==
  [c \in {"A", "B", "C", "D", "E", "F", "G", "H", "I", "J", "K", "L", "M",
          "N", "O", "P", "Q", "R", "S", "T", "U", "V", "W", "X", "Y", "Z"} |->
     CASE c = "A" -> "a" [] c = "B" -> "b" [] c = "C" -> "c" [] c = "D" -> "d"
       [] c = "E" -> "e" [] c = "F" -> "f" [] c = "G" -> "g" [] c = "H" -> "h"
       [] c = "I" -> "i" [] c = "J" -> "j" [] c = "K" -> "k" [] c = "L" -> "l"
       [] c = "M" -> "m" [] c = "N" -> "n" [] c = "O" -> "o" [] c = "P" -> "p"
       [] c = "Q" -> "q" [] c = "R" -> "r" [] c = "S" -> "s" [] c = "T" -> "t"
       [] c = "U" -> "u" [] c = "V" -> "v" [] c = "W" -> "w" [] c = "X" -> "x"
       [] c = "Y" -> "y" [] c = "Z" -> "z"]

\* str::to_ascii_lowercase
to_ascii_lowercase(s) ==
  [i \in 1..Len(s) |-> IF s[i] \in DOMAIN UpperToLower THEN UpperToLower[s[i]] ELSE s[i]]

\* char::is_ascii_digit
is_ascii_digit(c) == \E i \in 1..Len(DigitChars) : DigitChars[i] = c

\* Display of a non-negative integer: its decimal digits, most significant first
RECURSIVE DecimalDigits(_)
DecimalDigits(n) ==
  IF n < 10 THEN <<DigitChars[n + 1]>>
  ELSE Append(DecimalDigits(n \div 10), DigitChars[(n % 10) + 1])

\* Display of an i64: a minus sign in front of a negative value
Display(n) == IF n < 0 THEN <<"-">> \o DecimalDigits(0 - n) ELSE DecimalDigits(n)

\* format!("{:0>width$}", count): fill '0', right-aligned, minimum width;
\* a longer text is kept whole
PadLeft(s, width) ==
  IF Len(s) >= width THEN s ELSE [i \in 1..(width - Len(s)) |-> "0"] \o s

\* the string a sequence of characters spells
RECURSIVE Concat(_)
Concat(s) == IF s = <<>> THEN "" ELSE s[1] \o Concat(Tail(s))

(* ------------------------- the image renderer ------------------------- *)
\* A ThemeData is [id_to_uri : glyph id -> data URI, digits : digit -> glyph id].

\* the sequences that list every element of the set S exactly once: the orders
\* in which iterating a HashSet may yield its elements
Orders(S) ==
  {o \in [1..Cardinality(S) -> S] : \A a, b \in 1..Cardinality(S) : o[a] = o[b] => a = b}

\* the subsequence of the defined entries of an Option sequence (filter_map)
RECURSIVE filter_map(_)
filter_map(s) == IF s = <<>> THEN <<>> ELSE s[1] \o filter_map(Tail(s))

format_count(count) == PadLeft(Display(count), PAD_LENGTH)

\* a mutant: the placement is shifted one slot to the right
placement_x_shifted(i) == (i + 1) * IMG_WIDTH

\* x of the placement at character position i (0-based)
placement_x(i) == i * IMG_WIDTH

\* the <use> element of position i (1-based in the sequence), if its character has a glyph
use_at(theme_data, text, i) ==
  IF text[i] \in DOMAIN theme_data.digits
  THEN Some([href |-> theme_data.digits[text[i]], x |-> placement_x(i - 1), y |-> 0,
             width |-> IMG_WIDTH, height |-> IMG_HEIGHT])
  ELSE None

uses_of(theme_data, text) == filter_map([i \in 1..Len(text) |-> use_at(theme_data, text, i)])

\* a mutant: every glyph of the theme is defined, used or not
used_ids_whole_theme(theme_data, text) == DOMAIN theme_data.id_to_uri

\* the ids inserted into used_ids while the placements are built
used_ids(theme_data, text) ==
  {theme_data.digits[text[i]] : i \in {j \in 1..Len(text) : text[j] \in DOMAIN theme_data.digits}}

\* the <image> elements, in the order `order` in which used_ids is iterated
defs_of(theme_data, order) ==
  filter_map([k \in 1..Len(order) |->
     IF order[k] \in DOMAIN theme_data.id_to_uri
     THEN Some([id |-> order[k], width |-> IMG_WIDTH, height |-> IMG_HEIGHT,
                href |-> theme_data.id_to_uri[order[k]]])
     ELSE None])

\* the documents render_svg may return: one for each iteration order of used_ids
render_svg(theme_data, count) ==
  LET text == format_count(count) IN
  {[width |-> PAD_LENGTH * IMG_WIDTH, height |-> IMG_HEIGHT,
    defs |-> defs_of(theme_data, order), uses |-> uses_of(theme_data, text)] :
      order \in Orders(used_ids(theme_data, text))}

(* -------------------------- the glyph loader -------------------------- *)
\* A file of a theme directory:
\*   stem, ext : the file stem and the extension as characters (ext is None
\*               when the name has no extension);
\*   stem_utf8, ext_utf8 : whether OsStr::to_str decodes them;
\*   readable, bytes : whether std::fs::read succeeds, and what it returns.

mime_for(ext) ==
  LET e == to_ascii_lowercase(ext) IN
  CASE e = <<"p", "n", "g">> -> "image/png"
    [] e = <<"g", "i", "f">> -> "image/gif"
    [] e = <<"j", "p", "g">> \/ e = <<"j", "p", "e", "g">> -> "image/jpeg"
    [] OTHER -> "application/octet-stream"

\* the alphabet of base64's STANDARD engine
Base64Alphabet ==
  <<"A", "B", "C", "D", "E", "F", "G", "H", "I", "J", "K", "L", "M", "N", "O", "P",
    "Q", "R", "S", "T", "U", "V", "W", "X", "Y", "Z", "a", "b", "c", "d", "e", "f",
    "g", "h", "i", "j", "k", "l", "m", "n", "o", "p", "q", "r", "s", "t", "u", "v",
    "w", "x", "y", "z", "0", "1", "2", "3", "4", "5", "6", "7", "8", "9", "+", "/">>

Sextet(n) == Base64Alphabet[n + 1]

\* BASE64.encode: three bytes to four characters, '=' padding at the end
RECURSIVE BASE64_encode(_)
BASE64_encode(b) ==
  IF Len(b) = 0 THEN ""
  ELSE IF Len(b) = 1 THEN
    Sextet(b[1] \div 4) \o Sextet((b[1] % 4) * 16) \o "=="
  ELSE IF Len(b) = 2 THEN
    Sextet(b[1] \div 4) \o Sextet((b[1] % 4) * 16 + b[2] \div 16)
      \o Sextet((b[2] % 16) * 4) \o "="
  ELSE
    Sextet(b[1] \div 4) \o Sextet((b[1] % 4) * 16 + b[2] \div 16)
      \o Sextet((b[2] % 16) * 4 + b[3] \div 64) \o Sextet(b[3] % 64)
      \o BASE64_encode(SubSeq(b, 4, Len(b)))

\* a mutant: a file that cannot be read is loaded as an empty image
read_or_empty(f) == Some(IF f.readable THEN f.bytes ELSE <<>>)

\* std::fs::read(path).ok()
read_file(f) == IF f.readable THEN Some(f.bytes) ELSE None

\* path.extension().and_then(|e| e.to_str()).unwrap_or("")
extension_or_empty(f) == IF f.ext # None /\ f.ext_utf8 THEN f.ext[1] ELSE <<>>

load_digit(f) ==
  IF ~f.stem_utf8 THEN None                       \* file_stem()?.to_str()?
  ELSE IF f.stem = <<>> THEN None                 \* stem.chars().next()?
  ELSE IF ~is_ascii_digit(f.stem[1]) THEN None
  ELSE IF read_file(f) = None THEN None
  ELSE Some([digit |-> f.stem[1],
             uri |-> "data:" \o mime_for(extension_or_empty(f)) \o ";base64,"
                       \o BASE64_encode(read_file(f)[1])])

(* ------------------------------- state -------------------------------- *)
VARIABLES
  themes,          \* AppState.themes: theme name -> ThemeData (the registry)
  default_theme,   \* AppState.default_theme
  api_auth_token,  \* AppState.api_auth_token : Option<String>
  store,           \* table tb_count: name -> num, one entry per row
  reqs,            \* the requests: position in the handler (pc), inputs (name, theme,
                   \* hdr, arg), locals (write: the Result of the upsert, if issued;
                   \* post: num of the row right after the request's own upsert;
                   \* count: what increment returned) and the response (resp)
  lpc,             \* position of the process: "start", "root", "theme" (inside
                   \* load_themes), "loaded" (load_themes has returned), "serving"
  nentries,        \* entries of the themes root listed so far
  nfiles,          \* files of theme directories listed so far
  theme_name,      \* load_themes: the theme being loaded
  uri_to_id,       \* load_themes: data URI -> glyph id of the theme being loaded
  digits,          \* load_themes: digit -> glyph id of the theme being loaded
  digit_file,      \* theme name -> digit -> the file the digit's mapping was loaded from
  id_counter,      \* load_themes: the next glyph id number
  path,            \* load_themes: the file examined last, with what load_digit returned
  rendered         \* the last call of render_svg: its arguments and its result

serverVars == <<themes, default_theme, api_auth_token>>
loaderVars == <<lpc, nentries, nfiles, theme_name, uri_to_id, digits, digit_file,
                id_counter, path>>
vars == <<themes, default_theme, api_auth_token, store, reqs, lpc, nentries, nfiles,
          theme_name, uri_to_id, digits, digit_file, id_counter, path, rendered>>

EmptyMap == <<>>

(* --------------------------- input domains ---------------------------- *)
Reqs == 1..MaxReqs
Names == {"x", "y"}
ThemeNames == {"moebooru", "gelbooru", "asoul"}
\* ?theme= of GET /get/{name}
ThemeKeys == {None, Some("gelbooru")}
\* ?count= of GET /api/set/{name}
SetCounts == {0 - 1, 0, MaxCount}
\* the X-Auth-Token header: absent, present but not visible ASCII, or a text
Headers ==
  {[present |-> FALSE, visible |-> FALSE, text |-> ""],
   [present |-> TRUE, visible |-> FALSE, text |-> ""],
   [present |-> TRUE, visible |-> TRUE, text |-> "secret"],
   [present |-> TRUE, visible |-> TRUE, text |-> "wrong"]}
NoHeader == [present |-> FALSE, visible |-> FALSE, text |-> ""]
ConfiguredTokens == {None, Some("secret")}

PngA == <<137, 80, 78, 71>>
PngB == <<255, 216>>
File(stem, stem_utf8, ext, ext_utf8, readable, bytes) ==
  [stem |-> stem, stem_utf8 |-> stem_utf8, ext |-> ext, ext_utf8 |-> ext_utf8,
   readable |-> readable, bytes |-> bytes]
\* the files a theme directory may list; the stem stands for any stem with
\* the same first character
Files ==
  {File(<<d>>, TRUE, Some(<<"p", "n", "g">>), TRUE, TRUE, b) : d \in {"0", "1"}, b \in {PngA, PngB}}
  \cup {File(<<d>>, TRUE, Some(<<"G", "I", "F">>), TRUE, TRUE, PngA) : d \in {"0", "1"}}
  \cup {File(<<d>>, TRUE, None, TRUE, TRUE, PngA) : d \in {"0", "1"}}
  \cup {File(<<d>>, TRUE, Some(<<"p", "n", "g">>), TRUE, FALSE, <<>>) : d \in {"0", "1"}}
  \cup {File(<<"0">>, TRUE, Some(<<"p", "n", "g">>), FALSE, TRUE, PngA),
        File(<<"1">>, FALSE, Some(<<"p", "n", "g">>), TRUE, TRUE, PngA),
        File(<<"x">>, TRUE, Some(<<"j", "p", "e", "g">>), TRUE, TRUE, PngA)}
\* the counts render_svg is applied to
RenderCounts == (0..MaxCount) \cup {9999999, 10000000, 2147483647}

\* registries as load_themes leaves them, for the serving phase
GlyphsAB ==
  [id_to_uri |-> ("i0" :> "data:image/png;base64,iVBORw==") @@ ("i1" :> "data:image/png;base64,/9g="),
   digits |-> ("0" :> "i0") @@ ("1" :> "i1")]
GlyphsShared ==
  [id_to_uri |-> ("i0" :> "data:image/gif;base64,iVBORw=="),
   digits |-> ("0" :> "i0") @@ ("1" :> "i0")]
Registries ==
  {EmptyMap,
   ("moebooru" :> GlyphsAB) @@ ("gelbooru" :> GlyphsShared),
   ("asoul" :> GlyphsAB) @@ ("gelbooru" :> GlyphsShared)}

(* ---------------------------- the requests ---------------------------- *)
Text(status, text) == [status |-> status, text |-> text, svg |-> None]
NoResponse == Text(0, "")

IdleReq ==
  [pc |-> "idle", kind |-> "none", name |-> "", theme |-> None, hdr |-> NoHeader,
   arg |-> 0, write |-> None, post |-> None, count |-> 0, resp |-> NoResponse]

\* requests are numbered in the order of their first step
Arrives(r) == reqs[r].pc = "idle" /\ \A q \in Reqs : q < r => reqs[q].pc # "idle"

(* --------------------------- the counter store ------------------------ *)
\* a mutant: the row is replaced instead of updated (INSERT OR REPLACE ... VALUES (?1, 1))
upsert_replace(tb, name) == [n \in DOMAIN tb \cup {name} |-> IF n = name THEN 1 ELSE tb[n]]

\* a mutant: the statement is never issued
upsert_skipped(tb, name) == tb

\* INSERT INTO tb_count (name, num) VALUES (?1, 1)
\*   ON CONFLICT(name) DO UPDATE SET num = num + 1        (one SQLite statement)
upsert_increment(tb, name) ==
  [n \in DOMAIN tb \cup {name} |->
     IF n = name THEN (IF name \in DOMAIN tb THEN tb[name] + 1 ELSE 1) ELSE tb[n]]

\* INSERT INTO tb_count (name, num) VALUES (?1, ?2)
\*   ON CONFLICT(name) DO UPDATE SET num = ?2
upsert_set(tb, name, count) ==
  [n \in DOMAIN tb \cup {name} |-> IF n = name THEN count ELSE tb[n]]

\* SELECT num FROM tb_count WHERE name = ?1, fetch_one(..).unwrap_or(0):
\* 0 when the statement fails or finds no row
select_num_or_0(tb, name, read_ok) ==
  IF read_ok /\ name \in DOMAIN tb THEN tb[name] ELSE 0

(* ------------------------------ get_image ----------------------------- *)
\* increment, first statement: the upsert; its Result is dropped by .ok()
increment_upsert(r, name, theme, write_ok) ==
  /\ lpc = "serving"
  /\ Arrives(r)
  /\ store' = IF write_ok THEN upsert_increment(store, name) ELSE store
  /\ reqs' = [reqs EXCEPT ![r] =
       [IdleReq EXCEPT !.pc = "select", !.kind = "get", !.name = name, !.theme = theme,
          !.write = Some(write_ok),
          !.post = IF write_ok /\ name \in DOMAIN store' THEN Some(store'[name]) ELSE None]]
  /\ UNCHANGED <<serverVars, loaderVars, rendered>>

\* the name of the theme get_image renders with: the requested one, else the default one,
\* else any theme of the registry (themes.values().next()); empty if there is none
resolve_theme(theme) ==
  LET theme_key == IF theme # None THEN theme[1] ELSE default_theme IN
  IF theme_key \in DOMAIN themes THEN {theme_key}
  ELSE IF default_theme \in DOMAIN themes THEN {default_theme}
  ELSE DOMAIN themes

\* increment, second statement: the select; then theme resolution, rendering
\* and the response, which touch no shared mutable state
get_image_respond(r, read_ok) ==
  /\ lpc = "serving"
  /\ reqs[r].pc = "select"
  /\ LET count == select_num_or_0(store, reqs[r].name, read_ok)
         found == resolve_theme(reqs[r].theme)
     IN IF found = {}
        THEN reqs' = [reqs EXCEPT ![r].pc = "done", ![r].count = count,
                                  ![r].resp = Text(500, "no themes")]
        ELSE \E t \in found : \E doc \in render_svg(themes[t], count) :
             reqs' = [reqs EXCEPT ![r].pc = "done", ![r].count = count,
                                  ![r].resp = [status |-> 200, text |-> "image/svg+xml",
                                               svg |-> Some(doc)]]
  /\ UNCHANGED <<serverVars, loaderVars, store, rendered>>

(* ------------------------------ set_count ----------------------------- *)
\* req.headers().get("X-Auth-Token").and_then(|v| v.to_str().ok())
header_token(hdr) == IF hdr.present /\ hdr.visible THEN Some(hdr.text) ELSE None

\* a mutant: any presented token is accepted
token_any(token, expected_token) == FALSE

\* token != expected_token
token_differs(token, expected_token) == token # expected_token

\* a mutant: only counts below -1 are rejected
count_below_minus_one(count) == count < 0 - 1

\* a mutant: no count is rejected
count_never_negative(count) == FALSE

\* count < 0
count_negative(count) == count < 0

\* the whole handler: its only await is the upsert, whose Result is dropped by .ok()
set_count(r, name, count, hdr, write_ok) ==
  /\ lpc = "serving"
  /\ Arrives(r)
  /\ LET rejected(resp) ==
           /\ store' = store
           /\ reqs' = [reqs EXCEPT ![r] =
                [IdleReq EXCEPT !.pc = "done", !.kind = "set", !.name = name, !.hdr = hdr,
                   !.arg = count, !.resp = resp]]
     IN IF api_auth_token = None
        THEN rejected(Text(401, "Missing token configuration"))
        ELSE IF header_token(hdr) = None
        THEN rejected(Text(401, "Missing token"))
        ELSE IF token_differs(header_token(hdr)[1], api_auth_token[1])
        THEN rejected(Text(401, "Invalid token"))
        ELSE IF count_negative(count)
        THEN rejected(Text(400, "count must be non-negative"))
        ELSE /\ store' = IF write_ok THEN upsert_set(store, name, count) ELSE store
             /\ reqs' = [reqs EXCEPT ![r] =
                  [IdleReq EXCEPT !.pc = "done", !.kind = "set", !.name = name, !.hdr = hdr,
                     !.arg = count, !.write = Some(write_ok),
                     !.resp = Text(200, "set count of '" \o name \o "' to "
                                          \o Concat(Display(count)))]]
  /\ UNCHANGED <<serverVars, loaderVars, rendered>>

(* ----------------------------- load_themes ---------------------------- *)
\* std::fs::read_dir(dir) fails: the registry stays empty
read_root_fails ==
  /\ lpc = "start"
  /\ lpc' = "loaded"
  /\ UNCHANGED <<serverVars, store, reqs, nentries, nfiles, theme_name, uri_to_id, digits,
                 digit_file, id_counter, path, rendered>>

read_root ==
  /\ lpc = "start"
  /\ lpc' = "root"
  /\ UNCHANGED <<serverVars, store, reqs, nentries, nfiles, theme_name, uri_to_id, digits,
                 digit_file, id_counter, path, rendered>>

\* an entry of the root that is not a directory
skip_entry ==
  /\ lpc = "root"
  /\ nentries < MaxEntries
  /\ nentries' = nentries + 1
  /\ UNCHANGED <<serverVars, store, reqs, lpc, nfiles, theme_name, uri_to_id, digits,
                 digit_file, id_counter, path, rendered>>

\* a directory of the root: the per-theme maps start empty; when the directory
\* cannot be listed the theme is skipped
open_theme(name, listable) ==
  /\ lpc = "root"
  /\ nentries < MaxEntries
  /\ name \notin DOMAIN digit_file     \* a directory lists a name once
  /\ nentries' = nentries + 1
  /\ theme_name' = IF listable THEN name ELSE ""
  /\ uri_to_id' = EmptyMap
  /\ digits' = EmptyMap
  /\ id_counter' = 0
  /\ digit_file' = [t \in DOMAIN digit_file \cup {name} |->
                      IF t = name THEN EmptyMap ELSE digit_file[t]]
  /\ lpc' = IF listable THEN "theme" ELSE "root"
  /\ UNCHANGED <<serverVars, store, reqs, nfiles, path, rendered>>

\* uri_to_id.entry(uri): whether the URI already has an id
has_id(ids, uri) == uri \in DOMAIN ids

\* one file of the theme directory
scan_file(f) ==
  /\ lpc = "theme"
  /\ nfiles < MaxFiles
  /\ nfiles' = nfiles + 1
  /\ LET got == load_digit(f) IN
     /\ path' = Some([file |-> f, glyph |-> got])
     /\ IF got = None
        THEN UNCHANGED <<uri_to_id, digits, digit_file, id_counter>>
        ELSE LET uri == got[1].uri
                 digit == got[1].digit
                 id == IF has_id(uri_to_id, uri) THEN uri_to_id[uri]
                       ELSE "i" \o Concat(Display(id_counter))
             IN /\ uri_to_id' = IF has_id(uri_to_id, uri) THEN uri_to_id
                                ELSE [u \in DOMAIN uri_to_id \cup {uri} |->
                                        IF u = uri THEN id ELSE uri_to_id[u]]
                /\ id_counter' = IF has_id(uri_to_id, uri) THEN id_counter
                                 ELSE id_counter + 1
                /\ digits' = [d \in DOMAIN digits \cup {digit} |->
                                IF d = digit THEN id ELSE digits[d]]
                /\ digit_file' = [digit_file EXCEPT ![theme_name] =
                                    [d \in DOMAIN @ \cup {digit} |->
                                       IF d = digit THEN f ELSE @[d]]]
  /\ UNCHANGED <<serverVars, store, reqs, lpc, nentries, theme_name, rendered>>

\* uri_to_id.into_iter().map(|(uri, id)| (id, uri)).collect()
invert(ids) ==
  [id \in {ids[u] : u \in DOMAIN ids} |-> CHOOSE u \in DOMAIN ids : ids[u] = id]

\* the listing of the theme directory ends: a theme with at least one digit
\* is registered, and the locals of the loop body go out of scope
close_theme ==
  /\ lpc = "theme"
  /\ lpc' = "root"
  /\ themes' = IF digits # EmptyMap
               THEN [t \in DOMAIN themes \cup {theme_name} |->
                       IF t = theme_name
                       THEN [id_to_uri |-> invert(uri_to_id), digits |-> digits]
                       ELSE themes[t]]
               ELSE themes
  /\ theme_name' = ""
  /\ uri_to_id' = EmptyMap
  /\ digits' = EmptyMap
  /\ id_counter' = 0
  /\ path' = None
  /\ UNCHANGED <<default_theme, api_auth_token, store, reqs, nentries, nfiles, digit_file,
                 rendered>>

\* the listing of the root ends: load_themes returns
load_themes_returns ==
  /\ lpc = "root"
  /\ lpc' = "loaded"
  /\ nentries' = 0
  /\ nfiles' = 0
  /\ UNCHANGED <<serverVars, store, reqs, theme_name, uri_to_id, digits, digit_file,
                 id_counter, path, rendered>>

\* render_svg applied to a theme of the registry and a count
render(t, count) ==
  /\ lpc = "loaded"
  /\ rendered = None
  /\ t \in DOMAIN themes
  /\ \E doc \in render_svg(themes[t], count) :
       rendered' = Some([theme |-> t, count |-> count, doc |-> doc])
  /\ UNCHANGED <<serverVars, store, reqs, loaderVars>>

(* --------------------------- specifications --------------------------- *)
InitCommon ==
  /\ default_theme = "moebooru"
  /\ store = EmptyMap
  /\ reqs = [r \in Reqs |-> IdleReq]
  /\ nentries = 0
  /\ nfiles = 0
  /\ theme_name = ""
  /\ uri_to_id = EmptyMap
  /\ digits = EmptyMap
  /\ digit_file = EmptyMap
  /\ id_counter = 0
  /\ path = None
  /\ rendered = None

\* the server once main has built AppState: an empty table, no request yet
Init ==
  /\ InitCommon
  /\ lpc = "serving"
  /\ themes \in Registries
  /\ api_auth_token \in ConfiguredTokens

\* every SQL statement succeeds
Next ==
  \/ \E r \in Reqs, name \in Names, theme \in ThemeKeys : increment_upsert(r, name, theme, TRUE)
  \/ \E r \in Reqs : get_image_respond(r, TRUE)
  \/ \E r \in Reqs, name \in Names, count \in SetCounts, hdr \in Headers :
       set_count(r, name, count, hdr, TRUE)

Spec == Init /\ [][Next]_vars

\* a SQL statement may fail (I/O error, locked database)
NextFault ==
  \/ \E r \in Reqs, name \in Names, theme \in ThemeKeys, write_ok \in BOOLEAN :
       increment_upsert(r, name, theme, write_ok)
  \/ \E r \in Reqs, read_ok \in BOOLEAN : get_image_respond(r, read_ok)
  \/ \E r \in Reqs, name \in Names, count \in SetCounts, hdr \in Headers, write_ok \in BOOLEAN :
       set_count(r, name, count, hdr, write_ok)

SpecFault == Init /\ [][NextFault]_vars

\* start-up: load_themes on an asset tree, then render_svg on its registry
InitLoad ==
  /\ InitCommon
  /\ lpc = "start"
  /\ themes = EmptyMap
  /\ api_auth_token = None

NextLoad ==
  \/ read_root_fails
  \/ read_root
  \/ skip_entry
  \/ \E name \in ThemeNames, listable \in BOOLEAN : open_theme(name, listable)
  \/ \E f \in Files : scan_file(f)
  \/ close_theme
  \/ load_themes_returns
  \/ \E t \in ThemeNames, count \in RenderCounts : render(t, count)

SpecLoad == InitLoad /\ [][NextLoad]_vars

(* ============================== claims =============================== *)
Gets(n) == {r \in Reqs : reqs[r].kind = "get" /\ reqs[r].name = n}
SetsWritten(n) ==
  {r \in Reqs : reqs[r].kind = "set" /\ reqs[r].name = n /\ reqs[r].resp.status = 200}
\* the step in which request r runs set_count
SetStep(r) == reqs[r].pc = "idle" /\ reqs'[r].kind = "set"
\* the step in which request r issues the upsert of increment
UpsertStep(r) == reqs[r].pc = "idle" /\ reqs'[r].kind = "get"
\* the step in which request r reads the counter back and responds
RespondStep(r) == reqs[r].pc = "select" /\ reqs'[r].pc = "done"

C2_ReturnsOwnValue ==
  \A r \in Reqs :
    (reqs[r].kind = "get" /\ reqs[r].pc = "done") => reqs[r].post = Some(reqs[r].count)

\* C3: every stored counter value is >= 0.
C3_NonNegative == \A n \in DOMAIN store : store[n] >= 0

\* a set_count with the right token asked for a negative count, another
\* request has written the store
C3_Witness ==
  /\ \E r \in Reqs : /\ reqs[r].kind = "set"
                     /\ reqs[r].arg < 0
                     /\ header_token(reqs[r].hdr) = api_auth_token
                     /\ api_auth_token # None
  /\ DOMAIN store # {}

\* C4: set_count with the configured token and a negative count answers
\* 400 and leaves every row of the store as it was.
C4_NegativeRejected ==
  [][\A r \in Reqs :
       (/\ SetStep(r)
        /\ api_auth_token # None
        /\ header_token(reqs'[r].hdr) = api_auth_token
        /\ reqs'[r].arg < 0)
       => reqs'[r].resp.status = 400 /\ store' = store]_vars

\* such a request was rejected while its counter was stored
C4_Witness ==
  \E r \in Reqs :
    /\ reqs[r].kind = "set"
    /\ reqs[r].arg < 0
    /\ api_auth_token # None
    /\ header_token(reqs[r].hdr) = api_auth_token
    /\ reqs[r].resp.status = 400
    /\ reqs[r].name \in DOMAIN store

\* the token check of set_count passes
Authorized(hdr) == api_auth_token # None /\ header_token(hdr) = api_auth_token

\* C5: set_count answers 401 and leaves the store as it was when no token is
\* configured, no readable header is presented or the token differs, whatever
\* the count; set_count changes the store only in an authorized request.
C5_Unauthorized ==
  [][\A r \in Reqs :
       SetStep(r) =>
         /\ ~Authorized(reqs'[r].hdr) => reqs'[r].resp.status = 401 /\ store' = store
         /\ store' # store => Authorized(reqs'[r].hdr)]_vars

\* a wrong token and a missing header were both rejected, for counts that
\* an authorized request could have stored, and the store holds a counter
C5_Witness ==
  /\ api_auth_token # None
  /\ \E r, q \in Reqs :
       /\ reqs[r].kind = "set" /\ reqs[r].arg >= 0 /\ reqs[r].resp.status = 401
       /\ header_token(reqs[r].hdr) = Some("wrong")
       /\ reqs[q].kind = "set" /\ reqs[q].arg >= 0 /\ reqs[q].resp.status = 401
       /\ header_token(reqs[q].hdr) = None

\* no token is configured and a request presenting a token was rejected
C5_WitnessNoConfig ==
  /\ api_auth_token = None
  /\ \E r \in Reqs :
       /\ reqs[r].kind = "set" /\ reqs[r].arg >= 0 /\ reqs[r].resp.status = 401
       /\ header_token(reqs[r].hdr) = Some("secret")

C7_WriteFailureSurfaces ==
  \A r \in Reqs :
    (reqs[r].pc = "done" /\ reqs[r].write = Some(FALSE)) => reqs[r].resp.status # 200

\* a set_count whose upsert failed has answered
C7_Witness ==
  \E r \in Reqs : reqs[r].kind = "set" /\ reqs[r].pc = "done" /\ reqs[r].write = Some(FALSE)

(* ---- the renderer and the loader, stated without the model's operators ---- *)
RECURSIVE Pow10(_)
Pow10(k) == IF k = 0 THEN 1 ELSE 10 * Pow10(k - 1)
\* the number of decimal digits of n >= 0
NumLen(n) == CHOOSE k \in 1..10 : n \div Pow10(k - 1) < 10 /\ (k > 1 => n \div Pow10(k - 1) > 0)
\* the width of the text of n: 7, or more when n has more digits
TextLen(n) == IF NumLen(n) > 7 THEN NumLen(n) ELSE 7
\* the character at position i (0-based) of the text of n
CharAt(n, i) == DigitChars[((n \div Pow10(TextLen(n) - 1 - i)) % 10) + 1]
\* the arguments and the result of the last rendering
R == rendered[1]
RTheme == themes[R.theme]
\* the positions of the text whose digit has a glyph
GlyphPositions == {i \in 0..(TextLen(R.count) - 1) : CharAt(R.count, i) \in DOMAIN RTheme.digits}

\* C8: the placements are, in ascending order, exactly one at x = 45 * i for
\* every position i of the zero-padded text (7 characters, or more for longer
\* values) whose digit has a glyph, referring to that glyph, and none else.
C8_Placements ==
  rendered # None =>
    LET uses == R.doc.uses IN
    /\ Len(uses) = Cardinality(GlyphPositions)
    /\ \A k \in 1..Len(uses) :
         /\ \E i \in GlyphPositions :
              uses[k].x = 45 * i /\ uses[k].href = RTheme.digits[CharAt(R.count, i)]
         /\ k < Len(uses) => uses[k].x < uses[k + 1].x

\* a value of 8 digits was rendered with a theme that has a glyph for 1 and
\* none for 0: one placement, seven gaps
C8_Witness ==
  /\ rendered # None
  /\ R.count = 10000000
  /\ DOMAIN RTheme.digits = {"1"}
  /\ Len(R.doc.uses) = 1

\* a value none of whose digits has a glyph was rendered: no placement
C8_WitnessEmpty == rendered # None /\ R.count = 9999999 /\ R.doc.uses = <<>>

\* the ids the placements refer to
Referenced == {R.doc.uses[k].href : k \in 1..Len(R.doc.uses)}
\* exactly one definition for each referenced id and none for any other id
OneDefPerReferenced ==
  /\ \A id \in Referenced :
       Cardinality({k \in 1..Len(R.doc.defs) : R.doc.defs[k].id = id}) = 1
  /\ \A k \in 1..Len(R.doc.defs) : R.doc.defs[k].id \in Referenced
\* the digits of the rendered theme that occur in the rendered text
DigitsUsed ==
  {CharAt(R.count, i) : i \in GlyphPositions}
\* each position of digit d has its own placement
OwnPlacements(d) ==
  \A i \in GlyphPositions :
    CharAt(R.count, i) = d =>
      \E k \in 1..Len(R.doc.uses) : R.doc.uses[k].x = 45 * i /\ R.doc.uses[k].href = RTheme.digits[d]
SameBytes(d, e) == digit_file[R.theme][d].bytes = digit_file[R.theme][e].bytes
SameMime(d, e) ==
  mime_for(extension_or_empty(digit_file[R.theme][d]))
    = mime_for(extension_or_empty(digit_file[R.theme][e]))

\* C9 as claimed: one definition per referenced id, none for unreferenced ids,
\* and two digits loaded from byte-identical files share one definition while
\* each gets its own placement.
C9_Original ==
  rendered # None =>
    /\ OneDefPerReferenced
    /\ \A d, e \in DigitsUsed :
         (d # e /\ SameBytes(d, e)) =>
           RTheme.digits[d] = RTheme.digits[e] /\ OwnPlacements(d) /\ OwnPlacements(e)

\* C9 as amended: ... two digits loaded from byte-identical files whose
\* extensions give the same MIME type share one definition while each gets
\* its own placement.
C9_DefsOncePerUsedId ==
  rendered # None =>
    /\ OneDefPerReferenced
    /\ \A d, e \in DigitsUsed :
         (d # e /\ SameBytes(d, e) /\ SameMime(d, e)) =>
           RTheme.digits[d] = RTheme.digits[e] /\ OwnPlacements(d) /\ OwnPlacements(e)

\* 0 and 1 were loaded from byte-identical files of one MIME type and both
\* occur in the rendered text: one definition, eight placements
C9_Witness ==
  /\ rendered # None
  /\ R.count = 10000000
  /\ DigitsUsed = {"0", "1"}
  /\ SameBytes("0", "1") /\ SameMime("0", "1")
  /\ Len(R.doc.defs) = 1
  /\ Len(R.doc.uses) = 8

\* the step in which load_themes examines a file
ScanStep == lpc = "theme" /\ nfiles' = nfiles + 1
Examined == path'[1].file
Skipped ==
  /\ path'[1].glyph = None
  /\ digits' = digits /\ uri_to_id' = uri_to_id /\ id_counter' = id_counter
  /\ lpc' = "theme"
NameDecodable(f) == f.stem_utf8 /\ (f.ext # None => f.ext_utf8)

\* C10 as claimed: a file is skipped, and the scan goes on, when it cannot be
\* read, when its name is not decodable as text, or when it has no extension.
C10_Original ==
  [][ScanStep =>
       ((~Examined.readable \/ ~NameDecodable(Examined) \/ Examined.ext = None) => Skipped)]_vars

\* C10 as amended: a file is skipped, and the scan goes on, when it cannot be
\* read or when its stem is not decodable as text; a readable file whose stem
\* starts with a digit and whose extension is missing or not decodable is
\* loaded, with the MIME type application/octet-stream.
C10_SkipOrOctetStream ==
  [][ScanStep =>
       /\ (~Examined.readable \/ ~Examined.stem_utf8) => Skipped
       /\ (/\ Examined.readable /\ Examined.stem_utf8
           /\ Examined.stem[1] \in {"0", "1", "2", "3", "4", "5", "6", "7", "8", "9"}
           /\ (Examined.ext = None \/ ~Examined.ext_utf8))
          => /\ path'[1].glyph # None
             /\ path'[1].glyph[1].digit = Examined.stem[1]
             /\ \E b \in {"iVBORw==", "/9g="} :
                  path'[1].glyph[1].uri = "data:application/octet-stream;base64," \o b
             /\ Examined.stem[1] \in DOMAIN digits'
             /\ lpc' = "theme"]_vars

\* a file that cannot be read was skipped after another file of the theme
\* had been loaded, and the scan is still inside the theme
C10_Witness ==
  /\ lpc = "theme"
  /\ path # None
  /\ ~path[1].file.readable /\ path[1].glyph = None
  /\ digits # EmptyMap

\* a file without extension was loaded
C10_WitnessNoExt ==
  /\ lpc = "theme"
  /\ path # None
  /\ path[1].file.ext = None /\ path[1].glyph # None

====
